---- MODULE Spec2Model ----
(***************************************************************************)
(* Clearance / credential access control of Story-Systems.                *)
(*                                                                         *)
(* The model follows server/routes.ts (the HTTP handlers) and the two      *)
(* implementations of the IStorage interface: MemStorage (in-memory maps)  *)
(* and DatabaseStorage (drizzle over PostgreSQL).  `backend' says which    *)
(* one is exported as `storage'.                                           *)
(*                                                                         *)
(* Spec      every request handler runs to completion (one action each).   *)
(* SpecConc  requests of the credential routes interleave at their awaits  *)
(*           (one action per storage call).                                *)
(***************************************************************************)
EXTENDS Integers, Sequences, FiniteSets, TLC

VARIABLES
    backend,                 \* "mem" or "db": the class behind `storage'
    credentials,             \* credential catalogue, in id order
    currentCredentialId,     \* next credential id
    documents,               \* document store, in id order
    userCredentials,         \* bindings, in store iteration order
    currentUserCredentialId, \* next binding id
    resp,                    \* the last completed request and its response
    inflight                 \* SpecConc: the requests being processed

vars == <<backend, credentials, currentCredentialId, documents,
          userCredentials, currentUserCredentialId, resp, inflight>>

storeVars == <<backend, credentials, currentCredentialId, documents,
               userCredentials, currentUserCredentialId>>

----------------------------------------------------------------------------
(* Bounds *)

MaxCredentials == 2          \* credentials ever created
MaxUserCredentialId == 2     \* bindings ever created
MaxSlots == 2                \* requests in flight at once (SpecConc)

(* Values *)

\* values that are not numbers, kept apart from the integers a request
\* can carry (a query parameter may be negative)
Null == 0 - 100              \* JavaScript null / SQL NULL
Undef == 0 - 101             \* JavaScript undefined (property absent)
NaN == 0 - 102               \* parseInt of a non-numeric parameter
None == 0                    \* no id: undefined credential / document

Users == {1, 2}
Anonymous == 0               \* req.isAuthenticated() is false
Usernames == {"visitor_temporary", "agent", "doctor"}
Passwords == {"guest123", "pw"}
Empty == ""                  \* a missing (falsy) body field

Vec(s, m, a) == [securityLevel |-> s, medicalLevel |-> m, adminLevel |-> a]

\* a body field that is not sent
Missing == "<missing>"

Body(u, p, s, m, a) ==
    [ username |-> u, password |-> p,
      securityLevel |-> s, medicalLevel |-> m, adminLevel |-> a ]

\* the bodies POST /api/credentials/create is called with: levels given,
\* null or left out; usernames fresh or already in the catalogue
CredentialBodies ==
    { Body("agent", "pw", 1, 0, 0),
      Body("doctor", "guest123", Undef, 2, 0),
      Body("visitor_temporary", "pw", Null, 0, 2),
      Body(Missing, "pw", 0, 0, 0) }

\* the bodies POST /api/credentials/verify is called with
VerifyBodies ==
    (Usernames \X Passwords) \cup {<<Empty, "pw">>, <<"agent", Empty>>}

\* the query parameters GET /api/documents/accessible is called with, as
\* parseInt reads them: levels of a credential, text, a negative number
AccessibleQueries ==
    { Vec(2, 0, 0), Vec(0, 1, 0), Vec(NaN, 0, 2), Vec(0 - 1, 1, 0), Vec(2, 2, 2) }

\* the bodies an administrator has sent to POST /api/admin/documents and
\* then to PUT /api/admin/documents/:id for the documents added to the
\* sample data: one without restriction, one with levels null or left out
ExtraDocuments == << Vec(0, 0, 0), Vec(Null, 1, Undef) >>

----------------------------------------------------------------------------
(* JavaScript operators on possibly missing levels *)

\* ToNumber(null) = 0; ToNumber(undefined) = NaN, handled by the callers
ToNumber(x) == IF x = Null THEN 0 ELSE x

\* x || 0
OrZero(x) == IF x \in {Null, Undef, 0} THEN 0 ELSE x

\* a <= b: false when either side converts to NaN
JsLte(a, b) == a # Undef /\ b # Undef /\ ToNumber(a) <= ToNumber(b)

\* a < b
JsLt(a, b) == a # Undef /\ b # Undef /\ ToNumber(a) < ToNumber(b)

\* x ?? 0
Coalesce(x) == IF x \in {Null, Undef} THEN 0 ELSE x

\* the elements of an array
Range(s) == {s[i] : i \in 1..Len(s)}

\* Array.prototype.find: index of the first element among `matching' (the
\* elements satisfying the callback), or 0
FindIndex(s, matching) ==
    IF \E i \in 1..Len(s) : s[i] \in matching
    THEN CHOOSE i \in 1..Len(s) :
            s[i] \in matching /\ \A j \in 1..(i - 1) : s[j] \notin matching
    ELSE 0

\* Array.prototype.filter: the elements among `matching', in order
Filter(s, matching) == SelectSeq(s, LAMBDA x : x \in matching)

----------------------------------------------------------------------------
(* Storage: credential and document operations *)

\* `undefined' as the result of a lookup: a record whose id is None
Undefined == [id |-> None]

getDocument(id) ==
    LET i == FindIndex(documents, {d \in Range(documents) : d.id = id})
    IN  IF i = 0 THEN Undefined ELSE documents[i]

getCredential(id) ==
    LET i == FindIndex(credentials, {c \in Range(credentials) : c.id = id})
    IN  IF i = 0 THEN Undefined ELSE credentials[i]

getCredentialByUsername(username) ==
    LET i == FindIndex(credentials, {c \in Range(credentials) : c.username = username})
    IN  IF i = 0 THEN Undefined ELSE credentials[i]

MemStorage_createDocument(docs, insertDocument) ==
    [ id |-> Len(docs) + 1,
      securityLevel |-> insertDocument.securityLevel,
      medicalLevel |-> insertDocument.medicalLevel,
      adminLevel |-> insertDocument.adminLevel ]

DatabaseStorage_createDocument(docs, insertDocument) ==
    [ id |-> Len(docs) + 1,
      securityLevel |-> Coalesce(insertDocument.securityLevel),
      medicalLevel |-> Coalesce(insertDocument.medicalLevel),
      adminLevel |-> Coalesce(insertDocument.adminLevel) ]

createDocument(docs, insertDocument) ==
    Append(docs, IF backend = "mem"
                 THEN MemStorage_createDocument(docs, insertDocument)
                 ELSE DatabaseStorage_createDocument(docs, insertDocument))

\* { ...existingDocument, ...document }: a property of the patch replaces
\* the document's, also when its value is undefined
MemStorage_updateDocument(existingDocument, document) ==
    [ id |-> existingDocument.id,
      securityLevel |-> document.securityLevel,
      medicalLevel |-> document.medicalLevel,
      adminLevel |-> document.adminLevel ]

\* UPDATE ... SET: a column whose value is undefined is left out of the SET
DatabaseStorage_updateDocument(existingDocument, document) ==
    [ id |-> existingDocument.id,
      securityLevel |-> IF document.securityLevel = Undef
                        THEN existingDocument.securityLevel
                        ELSE document.securityLevel,
      medicalLevel |-> IF document.medicalLevel = Undef
                       THEN existingDocument.medicalLevel
                       ELSE document.medicalLevel,
      adminLevel |-> IF document.adminLevel = Undef
                     THEN existingDocument.adminLevel
                     ELSE document.adminLevel ]

updateDocument(docs, id, document) ==
    [i \in 1..Len(docs) |->
        IF docs[i].id # id THEN docs[i]
        ELSE IF backend = "mem" THEN MemStorage_updateDocument(docs[i], document)
        ELSE DatabaseStorage_updateDocument(docs[i], document)]

\* POST /api/admin/documents: each level of the body `|| 0'
AdminCreateDocument(docs, body) ==
    createDocument(docs, Vec(OrZero(body.securityLevel),
                             OrZero(body.medicalLevel),
                             OrZero(body.adminLevel)))

\* PUT /api/admin/documents/:id: the levels of the body as they are
AdminUpdateDocument(docs, id, body) == updateDocument(docs, id, body)

\* a document added with a body and then saved again with the same body
AdminAddAndEdit(docs, body) ==
    AdminUpdateDocument(AdminCreateDocument(docs, body), Len(docs) + 1, body)

MemStorage_createCredential(insertCredential) ==
    [ id |-> currentCredentialId,
      username |-> insertCredential.username,
      password |-> insertCredential.password,
      securityLevel |-> insertCredential.securityLevel,
      medicalLevel |-> insertCredential.medicalLevel,
      adminLevel |-> insertCredential.adminLevel,
      isActive |-> TRUE ]

DatabaseStorage_createCredential(insertCredential) ==
    [ id |-> currentCredentialId,
      username |-> insertCredential.username,
      password |-> insertCredential.password,
      securityLevel |-> Coalesce(insertCredential.securityLevel),
      medicalLevel |-> Coalesce(insertCredential.medicalLevel),
      adminLevel |-> Coalesce(insertCredential.adminLevel),
      isActive |-> TRUE ]

\* mutant: the id counter is read after it was last used, not advanced
createCredential_StaleId(insertCredential) ==
    [MemStorage_createCredential(insertCredential)
        EXCEPT !.id = currentCredentialId - 1]

createCredential(insertCredential) ==
    IF backend = "mem" THEN MemStorage_createCredential(insertCredential)
    ELSE DatabaseStorage_createCredential(insertCredential)

----------------------------------------------------------------------------
(* Storage: user-credential operations.  Each takes the binding store     *)
(* `ucs' it acts on and yields the value returned and/or the new store.   *)

Joined(uc, credential) ==
    [ id |-> credential.id,
      username |-> credential.username,
      password |-> credential.password,
      securityLevel |-> credential.securityLevel,
      medicalLevel |-> credential.medicalLevel,
      adminLevel |-> credential.adminLevel,
      isSelected |-> uc.isSelected ]

\* MemStorage throws when a binding's credential is missing
MemStorage_getUserCredentials(ucs, userId) ==
    LET entries == Filter(ucs, {uc \in Range(ucs) : uc.userId = userId})
    IN  IF \E i \in 1..Len(entries) : getCredential(entries[i].credentialId).id = None
        THEN [threw |-> TRUE, list |-> <<>>, store |-> ucs]
        ELSE [threw |-> FALSE,
              list |-> [i \in 1..Len(entries) |->
                          Joined(entries[i], getCredential(entries[i].credentialId))],
              store |-> ucs]

\* DatabaseStorage leaves such a binding out
DatabaseStorage_getUserCredentials(ucs, userId) ==
    LET entries == Filter(ucs, {uc \in Range(ucs) :
                        uc.userId = userId /\ getCredential(uc.credentialId).id # None})
    IN  [threw |-> FALSE,
         list |-> [i \in 1..Len(entries) |->
                     Joined(entries[i], getCredential(entries[i].credentialId))],
         store |-> ucs]

\* mutant: reading the list clears the isSelected flags it has read
getUserCredentials_Unselecting(ucs, userId) ==
    [ threw |-> FALSE,
      list |-> DatabaseStorage_getUserCredentials(ucs, userId).list,
      store |-> [i \in 1..Len(ucs) |->
                    IF ucs[i].userId = userId
                    THEN [ucs[i] EXCEPT !.isSelected = FALSE] ELSE ucs[i]] ]

\* the list returned (or the throw), and the binding store the call leaves:
\* neither backend writes
getUserCredentials(ucs, userId) ==
    IF backend = "mem" THEN MemStorage_getUserCredentials(ucs, userId)
    ELSE DatabaseStorage_getUserCredentials(ucs, userId)

\* mutant: the new binding takes the place of the user's bindings
addCredentialToUser_Replacing(ucs, userId, credentialId, isSelected) ==
    Append(Filter(ucs, {uc \in Range(ucs) : uc.userId # userId}),
           [id |-> currentUserCredentialId, userId |-> userId,
            credentialId |-> credentialId, isSelected |-> isSelected])

\* both backends append a binding with the next id; isSelected as passed
addCredentialToUser(ucs, userId, credentialId, isSelected) ==
    Append(ucs, [id |-> currentUserCredentialId, userId |-> userId,
                 credentialId |-> credentialId, isSelected |-> isSelected])

\* mutant: the bindings of every user are unselected
UnselectAll_Everyone(ucs, userId) ==
    [i \in 1..Len(ucs) |-> [ucs[i] EXCEPT !.isSelected = FALSE]]

\* mutant: the unselecting loop is left out
UnselectAll_Skipped(ucs, userId) == ucs

\* first statement of setSelectedCredential: unselect all of the user's bindings
UnselectAll(ucs, userId) ==
    [i \in 1..Len(ucs) |->
        IF ucs[i].userId = userId THEN [ucs[i] EXCEPT !.isSelected = FALSE]
        ELSE ucs[i]]

\* MemStorage: the first binding of the user with that credentialId is selected
MemStorage_SelectTarget(ucs, userId, credentialId) ==
    LET t == FindIndex(ucs, {uc \in Range(ucs) :
                 uc.userId = userId /\ uc.credentialId = credentialId})
    IN  [i \in 1..Len(ucs) |->
            IF i = t THEN [ucs[i] EXCEPT !.isSelected = TRUE] ELSE ucs[i]]

\* DatabaseStorage: UPDATE ... WHERE user_id = ? AND credential_id = ?
DatabaseStorage_SelectTarget(ucs, userId, credentialId) ==
    [i \in 1..Len(ucs) |->
        IF ucs[i].userId = userId /\ ucs[i].credentialId = credentialId
        THEN [ucs[i] EXCEPT !.isSelected = TRUE] ELSE ucs[i]]

\* mutant: the target is never set selected
SelectTarget_Skipped(ucs, userId, credentialId) == ucs

\* mutant: every binding of the user is set selected
SelectTarget_AllOfUser(ucs, userId, credentialId) ==
    [i \in 1..Len(ucs) |->
        IF ucs[i].userId = userId THEN [ucs[i] EXCEPT !.isSelected = TRUE]
        ELSE ucs[i]]

SelectTarget(ucs, userId, credentialId) ==
    IF backend = "mem" THEN MemStorage_SelectTarget(ucs, userId, credentialId)
    ELSE DatabaseStorage_SelectTarget(ucs, userId, credentialId)

\* mutant: the target is looked up by credential id alone
SelectedTargetId_AnyOwner(ucs, userId, credentialId) ==
    LET t == FindIndex(ucs, {uc \in Range(ucs) : uc.credentialId = credentialId})
    IN  IF t = 0 THEN None ELSE ucs[t].id

\* the binding returned (its id), None for undefined
SelectedTargetId(ucs, userId, credentialId) ==
    LET t == FindIndex(ucs, {uc \in Range(ucs) :
                 uc.userId = userId /\ uc.credentialId = credentialId})
    IN  IF t = 0 THEN None ELSE ucs[t].id

setSelectedCredential(ucs, userId, credentialId) ==
    [ result |-> SelectedTargetId(ucs, userId, credentialId),
      store |-> SelectTarget(UnselectAll(ucs, userId), userId, credentialId) ]

StrictlyLower_Mem(existingCred, newCredential) ==
    /\ JsLte(existingCred.securityLevel, newCredential.securityLevel)
    /\ JsLte(existingCred.medicalLevel, newCredential.medicalLevel)
    /\ JsLte(existingCred.adminLevel, newCredential.adminLevel)
    /\ \/ JsLt(existingCred.securityLevel, newCredential.securityLevel)
       \/ JsLt(existingCred.medicalLevel, newCredential.medicalLevel)
       \/ JsLt(existingCred.adminLevel, newCredential.adminLevel)

StrictlyLower_Db(existingCred, newCredential) ==
    /\ OrZero(existingCred.securityLevel) <= OrZero(newCredential.securityLevel)
    /\ OrZero(existingCred.medicalLevel) <= OrZero(newCredential.medicalLevel)
    /\ OrZero(existingCred.adminLevel) <= OrZero(newCredential.adminLevel)
    /\ \/ OrZero(existingCred.securityLevel) < OrZero(newCredential.securityLevel)
       \/ OrZero(existingCred.medicalLevel) < OrZero(newCredential.medicalLevel)
       \/ OrZero(existingCred.adminLevel) < OrZero(newCredential.adminLevel)

\* the id of the first bound credential the new one makes obsolete, or None
checkIfCredentialObsolete(ucs, userId, newCredential) ==
    LET list == getUserCredentials(ucs, userId).list
        i == IF backend = "mem"
             THEN FindIndex(list, {c \in Range(list) : StrictlyLower_Mem(c, newCredential)})
             ELSE FindIndex(list, {c \in Range(list) : StrictlyLower_Db(c, newCredential)})
    IN  IF i = 0 THEN None ELSE list[i].id

\* mutant: the bindings to the credential are deleted whoever owns them
removeCredentialFromUser_AnyOwner(ucs, userId, credentialId) ==
    [ result |-> \E i \in 1..Len(ucs) : ucs[i].credentialId = credentialId,
      store |-> Filter(ucs, {uc \in Range(ucs) : uc.credentialId # credentialId}) ]

\* mutant: after the deletion the user's first remaining binding is selected
removeCredentialFromUser_Promoting(ucs, userId, credentialId) ==
    LET kept == Filter(ucs, {uc \in Range(ucs) :
                    ~(uc.userId = userId /\ uc.credentialId = credentialId)})
        first == FindIndex(kept, {uc \in Range(kept) : uc.userId = userId})
    IN  [ result |-> \E i \in 1..Len(ucs) :
                        ucs[i].userId = userId /\ ucs[i].credentialId = credentialId,
          store |-> [i \in 1..Len(kept) |->
                        IF i = first THEN [kept[i] EXCEPT !.isSelected = TRUE]
                        ELSE kept[i]] ]

\* what checkIfCredentialObsolete can return.  MemStorage lists the bindings
\* in the order of the Map, the order they were added in.  DatabaseStorage
\* reads them with a SELECT that has no ORDER BY, after UPDATE statements
\* that rewrite the rows: the rows come in an order the database chooses,
\* and `find' returns the first match of that order, which can be any match.
checkIfCredentialObsoleteResults(ucs, userId, newCredential) ==
    LET list == getUserCredentials(ucs, userId).list
        matches == {i \in 1..Len(list) : StrictlyLower_Db(list[i], newCredential)}
    IN  IF backend = "mem"
        THEN {checkIfCredentialObsolete(ucs, userId, newCredential)}
        ELSE IF matches = {} THEN {None}
        ELSE {list[i].id : i \in matches}

removeCredentialFromUser(ucs, userId, credentialId) ==
    [ result |-> \E i \in 1..Len(ucs) :
                    ucs[i].userId = userId /\ ucs[i].credentialId = credentialId,
      store |-> Filter(ucs, {uc \in Range(ucs) :
                    ~(uc.userId = userId /\ uc.credentialId = credentialId)}) ]

----------------------------------------------------------------------------
(* Responses *)

Absent == [absent |-> TRUE]     \* a field the JSON body does not have

\* res.status(status).json({message}) for request `op' by `user' on `arg'
Response(op, user, arg, password, status, message) ==
    [ op |-> op, user |-> user, arg |-> arg, password |-> password,
      status |-> status, message |-> message,
      credential |-> None, obsoleteCredential |-> None,
      accessDenied |-> FALSE, requiredLevels |-> Absent,
      currentLevels |-> Absent, document |-> None, documents |-> <<>>,
      credentials |-> <<>> ]

Levels(r) == Vec(r.securityLevel, r.medicalLevel, r.adminLevel)

----------------------------------------------------------------------------
(* GET /api/documents/:id *)

\* mutant: the first credential held is taken, selected or not
FindSelected_FirstHeld(list) ==
    IF Len(list) = 0 THEN [id |-> None] ELSE list[1]

\* mutant: the credential acquired last is taken, selected or not
FindSelected_LastHeld(list) ==
    IF Len(list) = 0 THEN [id |-> None] ELSE list[Len(list)]

\* userCredentials.find(cred => cred.isSelected)
FindSelected(list) ==
    LET i == FindIndex(list, {cred \in Range(list) : cred.isSelected})
    IN  IF i = 0 THEN Undefined ELSE list[i]

\* mutant: the security axis is compared with > instead of >=
hasSecurityAccess_Strict(selectedCredential, document) ==
    OrZero(selectedCredential.securityLevel) > OrZero(document.securityLevel)

hasSecurityAccess(selectedCredential, document) ==
    OrZero(selectedCredential.securityLevel) >= OrZero(document.securityLevel)

hasMedicalAccess(selectedCredential, document) ==
    OrZero(selectedCredential.medicalLevel) >= OrZero(document.medicalLevel)

\* mutant: the admin axis is not compared
hasAdminAccess_Unchecked(selectedCredential, document) == TRUE

hasAdminAccess(selectedCredential, document) ==
    OrZero(selectedCredential.adminLevel) >= OrZero(document.adminLevel)

\* mutant: without a selected credential the document is returned
NoCredentialSelected_Allowed(r, document) ==
    [r EXCEPT !.status = 200, !.document = document.id]

\* the 403 answered when no credential is selected
NoCredentialSelected(r, document) ==
    [r EXCEPT !.status = 403,
              !.message = "Access denied - No credential selected",
              !.accessDenied = TRUE,
              !.requiredLevels = Levels(document)]

\* mutant: currentLevels is filled from the document
InsufficientPermissions_FromDocument(r, document, selectedCredential) ==
    [r EXCEPT !.status = 403,
              !.message = "Access denied - Insufficient permissions",
              !.accessDenied = TRUE,
              !.requiredLevels = Levels(document),
              !.currentLevels = Levels(document)]

\* the 403 answered when the selected credential is insufficient
InsufficientPermissions(r, document, selectedCredential) ==
    [r EXCEPT !.status = 403,
              !.message = "Access denied - Insufficient permissions",
              !.accessDenied = TRUE,
              !.requiredLevels = Levels(document),
              !.currentLevels = Levels(selectedCredential)]

\* mutant: the document is looked up before the caller is authenticated
GetDocumentResponse_LookupFirst(user, id) ==
    LET R(status, message) == Response("getDocument", user, id, Empty, status, message)
        document == getDocument(id)
        fetched == getUserCredentials(userCredentials, user)
        selectedCredential == FindSelected(fetched.list)
    IN  IF id = NaN THEN R(400, "Invalid document ID")
        ELSE IF document.id = None THEN R(404, "Document not found")
        ELSE IF user = Anonymous THEN R(401, "Unauthorized")
        ELSE IF fetched.threw THEN R(500, "Failed to fetch document")
        ELSE IF selectedCredential.id = None
        THEN NoCredentialSelected(R(0, ""), document)
        ELSE IF \/ ~hasSecurityAccess(selectedCredential, document)
                \/ ~hasMedicalAccess(selectedCredential, document)
                \/ ~hasAdminAccess(selectedCredential, document)
        THEN InsufficientPermissions(R(0, ""), document, selectedCredential)
        ELSE [R(200, "") EXCEPT !.document = document.id]

\* the response of GET /api/documents/:id
GetDocumentResponse(user, id) ==
    LET R(status, message) == Response("getDocument", user, id, Empty, status, message)
        document == getDocument(id)
        fetched == getUserCredentials(userCredentials, user)
        selectedCredential == FindSelected(fetched.list)
    IN  IF user = Anonymous THEN R(401, "Unauthorized")
        ELSE IF id = NaN THEN R(400, "Invalid document ID")
        ELSE IF document.id = None THEN R(404, "Document not found")
        ELSE IF fetched.threw THEN R(500, "Failed to fetch document")
        ELSE IF selectedCredential.id = None
        THEN NoCredentialSelected(R(0, ""), document)
        ELSE IF \/ ~hasSecurityAccess(selectedCredential, document)
                \/ ~hasMedicalAccess(selectedCredential, document)
                \/ ~hasAdminAccess(selectedCredential, document)
        THEN InsufficientPermissions(R(0, ""), document, selectedCredential)
        ELSE [R(200, "") EXCEPT !.document = document.id]

\* an unauthenticated caller is answered before its input is read: one
\* input stands for all of them
InputsOf(user, inputs) ==
    IF user = Anonymous THEN {CHOOSE x \in inputs : TRUE} ELSE inputs

DocumentIds == 1..(Len(documents) + 1) \cup {NaN}
CredentialIds == 1..currentCredentialId \cup {NaN}

GetDocument ==
    \E user \in Users \cup {Anonymous} : \E id \in DocumentIds :
        /\ resp' = GetDocumentResponse(user, id)
        /\ userCredentials' =
              IF user = Anonymous \/ id = NaN \/ getDocument(id).id = None
              THEN userCredentials
              ELSE getUserCredentials(userCredentials, user).store
        /\ UNCHANGED <<backend, credentials, currentCredentialId, documents,
                       currentUserCredentialId, inflight>>

----------------------------------------------------------------------------
(* GET /api/documents/accessible *)

\* parseInt(req.query.x) || 0
QueryLevel(x) == IF x = NaN \/ x = 0 THEN 0 ELSE x

\* doc.level <= level on the three axes
MemStorage_Accessible(doc, secLevel, medLevel, adminLevel) ==
    /\ JsLte(doc.securityLevel, secLevel)
    /\ JsLte(doc.medicalLevel, medLevel)
    /\ JsLte(doc.adminLevel, adminLevel)

\* (doc.level === null || doc.level <= level) on the three axes
DatabaseStorage_Accessible(doc, secLevel, medLevel, adminLevel) ==
    /\ (doc.securityLevel = Null \/ JsLte(doc.securityLevel, secLevel))
    /\ (doc.medicalLevel = Null \/ JsLte(doc.medicalLevel, medLevel))
    /\ (doc.adminLevel = Null \/ JsLte(doc.adminLevel, adminLevel))

getAccessibleDocuments(secLevel, medLevel, adminLevel) ==
    IF backend = "mem"
    THEN Filter(documents, {doc \in Range(documents) :
                    MemStorage_Accessible(doc, secLevel, medLevel, adminLevel)})
    ELSE Filter(documents, {doc \in Range(documents) :
                    DatabaseStorage_Accessible(doc, secLevel, medLevel, adminLevel)})

\* the ids of a list of documents, in its order
IdsOf(docs) == [i \in 1..Len(docs) |-> docs[i].id]

GetAccessibleDocuments ==
    \E user \in Users \cup {Anonymous} :
    \E query \in InputsOf(user, AccessibleQueries) :
        LET securityLevel == QueryLevel(query.securityLevel)
            medicalLevel == QueryLevel(query.medicalLevel)
            adminLevel == QueryLevel(query.adminLevel)
            R(status, message) ==
                Response("accessible", user,
                         Vec(securityLevel, medicalLevel, adminLevel),
                         Empty, status, message)
        IN  /\ resp' = IF user = Anonymous THEN R(401, "Unauthorized")
                       ELSE [R(200, "") EXCEPT !.documents =
                               IdsOf(getAccessibleDocuments(
                                   securityLevel, medicalLevel, adminLevel))]
            /\ UNCHANGED <<storeVars, inflight>>

----------------------------------------------------------------------------
(* GET /api/documents *)

\* Array.from(this.documents.values()) / db.select().from(documents)
getDocuments == documents

GetDocuments ==
    \E user \in Users \cup {Anonymous} :
        LET R(status, message) ==
                Response("getDocuments", user, None, Empty, status, message)
        IN  /\ resp' = IF user = Anonymous THEN R(401, "Unauthorized")
                       ELSE [R(200, "") EXCEPT !.documents = IdsOf(getDocuments)]
            /\ UNCHANGED <<storeVars, inflight>>

\* the levels the document sidebar of the client puts in the query of
\* GET /api/documents/accessible: selectedCredential?.level || 0 over the
\* list GET /api/credentials answered
SidebarQuery(user) ==
    LET selectedCredential == FindSelected(getUserCredentials(userCredentials, user).list)
    IN  IF selectedCredential.id = None THEN Vec(0, 0, 0)
        ELSE Vec(OrZero(selectedCredential.securityLevel),
                 OrZero(selectedCredential.medicalLevel),
                 OrZero(selectedCredential.adminLevel))

----------------------------------------------------------------------------
(* GET /api/credentials *)

\* a binding as the response lists it: the credential's id and isSelected
Listed(c) == [id |-> c.id, isSelected |-> c.isSelected]

GetCredentials ==
    \E user \in Users \cup {Anonymous} :
        LET R(status, message) ==
                Response("getCredentials", user, None, Empty, status, message)
            fetched == getUserCredentials(userCredentials, user)
        IN  /\ resp' = IF user = Anonymous THEN R(401, "Unauthorized")
                       ELSE IF fetched.threw
                       THEN R(500, "Failed to fetch credentials")
                       ELSE [R(200, "") EXCEPT !.credentials =
                               [i \in 1..Len(fetched.list) |-> Listed(fetched.list[i])]]
            /\ userCredentials' = IF user = Anonymous THEN userCredentials
                                  ELSE fetched.store
            /\ UNCHANGED <<backend, credentials, currentCredentialId, documents,
                           currentUserCredentialId, inflight>>

----------------------------------------------------------------------------
(* POST /api/credentials/verify *)

\* mutant: the password is not compared
InvalidCredentials_NoPassword(credential, password) == credential.id = None

\* !credential || credential.password !== password
InvalidCredentials(credential, password) ==
    credential.id = None \/ credential.password # password

\* mutant: the ownership check is left out
existingCredential_Never(list, credential) == FALSE

\* userCredentials.find(c => c.id === credential.id)
existingCredential(list, credential) ==
    FindIndex(list, {c \in Range(list) : c.id = credential.id}) # 0

VerifyCredentialBy(callers, bodies, limit) ==
    \E user \in callers : \E body \in InputsOf(user, bodies) :
        LET username == body[1]
            password == body[2]
            R(status, message) ==
                Response("verify", user, username, password, status, message)
            credential == getCredentialByUsername(username)
            fetched == getUserCredentials(userCredentials, user)
            added == addCredentialToUser(userCredentials, user, credential.id, TRUE)
            selected == setSelectedCredential(added, user, credential.id)
        IN  /\ IF user = Anonymous
               THEN resp' = R(401, "Unauthorized") /\ UNCHANGED storeVars
               ELSE IF username = Empty \/ password = Empty
               THEN /\ resp' = R(400, "Username and password are required")
                    /\ UNCHANGED storeVars
               ELSE IF InvalidCredentials(credential, password)
               THEN resp' = R(401, "Invalid credentials") /\ UNCHANGED storeVars
               ELSE IF fetched.threw
               THEN resp' = R(500, "Failed to verify credential") /\ UNCHANGED storeVars
               ELSE IF existingCredential(fetched.list, credential)
               THEN /\ resp' = [R(409, "Credential already exists in your profile")
                                  EXCEPT !.credential = credential.id]
                    /\ UNCHANGED storeVars
               ELSE \E obsoleteCredential \in checkIfCredentialObsoleteResults(
                                                userCredentials, user, credential) :
                    /\ currentUserCredentialId <= limit
                    /\ userCredentials' = selected.store
                    /\ currentUserCredentialId' = currentUserCredentialId + 1
                    /\ resp' = [R(200, "Credential verified and added to your profile")
                                  EXCEPT !.credential = credential.id,
                                         !.obsoleteCredential = obsoleteCredential]
                    /\ UNCHANGED <<backend, credentials, currentCredentialId, documents>>
            /\ UNCHANGED inflight

VerifyCredential ==
    VerifyCredentialBy(Users \cup {Anonymous}, VerifyBodies, MaxUserCredentialId)

----------------------------------------------------------------------------
(* POST /api/credentials/select/:id and DELETE /api/credentials/:id *)

SelectResponse(user, credentialId, result) ==
    IF result = None
    THEN Response("select", user, credentialId, Empty, 404,
                  "Credential not found or not owned by user")
    ELSE Response("select", user, credentialId, Empty, 200,
                  "Credential selected successfully")

SelectCredential ==
    \E user \in Users \cup {Anonymous} :
    \E credentialId \in InputsOf(user, CredentialIds) :
        LET R(status, message) ==
                Response("select", user, credentialId, Empty, status, message)
            selected == setSelectedCredential(userCredentials, user, credentialId)
        IN  /\ IF user = Anonymous
               THEN resp' = R(401, "Unauthorized") /\ UNCHANGED storeVars
               ELSE IF credentialId = NaN
               THEN resp' = R(400, "Invalid credential ID") /\ UNCHANGED storeVars
               ELSE /\ userCredentials' = selected.store
                    /\ resp' = SelectResponse(user, credentialId, selected.result)
                    /\ UNCHANGED <<backend, credentials, currentCredentialId,
                                   documents, currentUserCredentialId>>
            /\ UNCHANGED inflight

RemoveCredential ==
    \E user \in Users \cup {Anonymous} :
    \E credentialId \in InputsOf(user, CredentialIds) :
        LET R(status, message) ==
                Response("remove", user, credentialId, Empty, status, message)
            removed == removeCredentialFromUser(userCredentials, user, credentialId)
        IN  /\ IF user = Anonymous
               THEN resp' = R(401, "Unauthorized") /\ UNCHANGED storeVars
               ELSE IF credentialId = NaN
               THEN resp' = R(400, "Invalid credential ID") /\ UNCHANGED storeVars
               ELSE /\ userCredentials' = removed.store
                    /\ resp' = IF removed.result
                               THEN R(200, "Credential removed successfully")
                               ELSE R(404, "Credential not found or not owned by user")
                    /\ UNCHANGED <<backend, credentials, currentCredentialId,
                                   documents, currentUserCredentialId>>
            /\ UNCHANGED inflight

----------------------------------------------------------------------------
(* POST /api/credentials/create *)

CreateCredentialWith(callers, bodies, limit) ==
    \E user \in callers :
    \E credentialData \in InputsOf(user, bodies) :
        LET R(status, message) ==
                Response("create", user, credentialData.username,
                         credentialData.password, status, message)
            newCredential == createCredential(credentialData)
        IN  /\ IF user = Anonymous
               THEN resp' = R(401, "Unauthorized") /\ UNCHANGED storeVars
               ELSE IF credentialData.username = Missing
               THEN resp' = R(400, "Invalid credential data") /\ UNCHANGED storeVars
               ELSE /\ currentCredentialId <= limit
                    /\ credentials' = Append(credentials, newCredential)
                    /\ currentCredentialId' = currentCredentialId + 1
                    /\ resp' = [R(201, "") EXCEPT !.credential = newCredential.id]
                    /\ UNCHANGED <<backend, documents, userCredentials,
                                   currentUserCredentialId>>
            /\ UNCHANGED inflight

CreateCredentialBy(callers) ==
    CreateCredentialWith(callers, CredentialBodies, MaxCredentials)

CreateCredential == CreateCredentialBy(Users \cup {Anonymous})

----------------------------------------------------------------------------
(* Construction: MemStorage.initializeData *)

InitialDocuments ==
    << [id |-> 1, securityLevel |-> 1, medicalLevel |-> 0, adminLevel |-> 0],
       [id |-> 2, securityLevel |-> 0, medicalLevel |-> 2, adminLevel |-> 0],
       [id |-> 3, securityLevel |-> 0, medicalLevel |-> 0, adminLevel |-> 2] >>

InitialCredentials ==
    << [ id |-> 1, username |-> "visitor_temporary", password |-> "guest123",
         securityLevel |-> 0, medicalLevel |-> 0, adminLevel |-> 0,
         isActive |-> TRUE ] >>

NoResponse == Response("none", Anonymous, None, Empty, 0, "")

Idle == [ pc |-> "idle", op |-> "none", user |-> Anonymous, arg |-> None,
          password |-> Empty, credential |-> None, obsolete |-> None,
          result |-> None ]

Init ==
    /\ backend \in {"mem", "db"}
    /\ credentials = InitialCredentials
    /\ currentCredentialId = 2
    /\ documents = AdminAddAndEdit(AdminAddAndEdit(InitialDocuments,
                        ExtraDocuments[1]), ExtraDocuments[2])
    /\ userCredentials = <<>>
    /\ currentUserCredentialId = 1
    /\ resp = NoResponse
    /\ inflight = [slot \in 1..MaxSlots |-> Idle]

Next ==
    \/ GetDocument
    \/ GetDocuments
    \/ GetAccessibleDocuments
    \/ GetCredentials
    \/ VerifyCredential
    \/ SelectCredential
    \/ RemoveCredential
    \/ CreateCredential

Spec == Init /\ [][Next]_vars

----------------------------------------------------------------------------
(* The maintenance path: an administrator deletes a credential of the      *)
(* catalogue (DELETE /api/admin/credentials/:id, the request of the        *)
(* credentials page of the admin client).  The bindings to it stay: the    *)
(* user_credentials table has no foreign key.                              *)

DeleteCredential ==
    \E id \in 1..(currentCredentialId - 1) :
        /\ getCredential(id).id # None
        /\ credentials' = Filter(credentials, {c \in Range(credentials) : c.id # id})
        /\ resp' = Response("deleteCredential", Anonymous, id, Empty, 200, "")
        /\ UNCHANGED <<backend, currentCredentialId, documents, userCredentials,
                       currentUserCredentialId, inflight>>

NextMaint ==
    \/ Next
    \/ DeleteCredential

SpecMaint == Init /\ [][NextMaint]_vars

----------------------------------------------------------------------------
(* The verify and select routes, one action per storage call.  A request  *)
(* occupies a slot of `inflight' from the call of its handler to its      *)
(* response; each action runs the handler from one await to the next,     *)
(* with the storage call made there.  MemStorage methods run to their end *)
(* when called; DatabaseStorage.setSelectedCredential awaits two UPDATE   *)
(* statements, each atomic.                                               *)

Slots == 1..MaxSlots

\* the user whose requests (two browser tabs) interleave
Tabs == {1}

\* a request takes the lowest free slot: which slot it is says nothing
Free(slot) ==
    /\ inflight[slot].pc = "idle"
    /\ \A other \in 1..(slot - 1) : inflight[other].pc # "idle"

CreateCredentialConc == CreateCredentialBy(Tabs)

\* POST /api/credentials/verify arrives: storage.getCredentialByUsername
BeginVerify ==
    \E slot \in Slots, user \in Tabs, body \in VerifyBodies :
        /\ Free(slot)
        /\ body[1] # Empty /\ body[2] # Empty
        /\ inflight' = [inflight EXCEPT ![slot] =
              [Idle EXCEPT !.pc = "lookedUp", !.op = "verify", !.user = user,
                           !.arg = body[1], !.password = body[2],
                           !.credential = getCredentialByUsername(body[1]).id]]
        /\ UNCHANGED <<storeVars, resp>>

\* the password check, then storage.getUserCredentials
VerifyFetch ==
    \E slot \in Slots :
        LET r == inflight[slot]
            credential == getCredential(r.credential)
            fetched == getUserCredentials(userCredentials, r.user)
            R(status, message) ==
                Response("verify", r.user, r.arg, r.password, status, message)
        IN  /\ r.pc = "lookedUp"
            /\ IF InvalidCredentials(credential, r.password)
               THEN /\ resp' = R(401, "Invalid credentials")
                    /\ inflight' = [inflight EXCEPT ![slot] = Idle]
               ELSE IF fetched.threw
               THEN /\ resp' = R(500, "Failed to verify credential")
                    /\ inflight' = [inflight EXCEPT ![slot] = Idle]
               ELSE /\ inflight' = [inflight EXCEPT
                        ![slot].pc = "fetched",
                        ![slot].result =
                            IF existingCredential(fetched.list, credential)
                            THEN credential.id ELSE None]
                    /\ UNCHANGED resp
            /\ UNCHANGED storeVars

\* the ownership check, then storage.checkIfCredentialObsolete
VerifyCheck ==
    \E slot \in Slots :
        LET r == inflight[slot]
            credential == getCredential(r.credential)
            R(status, message) ==
                Response("verify", r.user, r.arg, r.password, status, message)
        IN  /\ r.pc = "fetched"
            /\ IF r.result # None
               THEN /\ resp' = [R(409, "Credential already exists in your profile")
                                  EXCEPT !.credential = credential.id]
                    /\ inflight' = [inflight EXCEPT ![slot] = Idle]
               ELSE \E obsoleteCredential \in checkIfCredentialObsoleteResults(
                                                userCredentials, r.user, credential) :
                    /\ inflight' = [inflight EXCEPT
                          ![slot].pc = "checked",
                          ![slot].obsolete = obsoleteCredential]
                    /\ UNCHANGED resp
            /\ UNCHANGED storeVars

\* storage.addCredentialToUser({userId, credentialId, isSelected: true})
VerifyAdd ==
    \E slot \in Slots :
        LET r == inflight[slot]
        IN  /\ r.pc = "checked"
            /\ currentUserCredentialId <= MaxUserCredentialId
            /\ userCredentials' =
                  addCredentialToUser(userCredentials, r.user, r.credential, TRUE)
            /\ currentUserCredentialId' = currentUserCredentialId + 1
            /\ inflight' = [inflight EXCEPT ![slot].pc = "added"]
            /\ UNCHANGED <<backend, credentials, currentCredentialId, documents, resp>>

\* the call of storage.setSelectedCredential: all of it in MemStorage, the
\* first UPDATE in DatabaseStorage
CallSetSelected(slot, userId, credentialId) ==
    IF backend = "mem"
    THEN LET selected == setSelectedCredential(userCredentials, userId, credentialId)
         IN  /\ userCredentials' = selected.store
             /\ inflight' = [inflight EXCEPT ![slot].pc = "selected",
                                             ![slot].result = selected.result]
    ELSE /\ userCredentials' = UnselectAll(userCredentials, userId)
         /\ inflight' = [inflight EXCEPT ![slot].pc = "unselected"]

VerifySelect ==
    \E slot \in Slots :
        LET r == inflight[slot]
        IN  /\ r.pc = "added"
            /\ CallSetSelected(slot, r.user, r.credential)
            /\ UNCHANGED <<backend, credentials, currentCredentialId, documents,
                           currentUserCredentialId, resp>>

\* POST /api/credentials/select/:id arrives: storage.setSelectedCredential
BeginSelect ==
    \E slot \in Slots, user \in Tabs, credentialId \in 1..(Len(credentials) + 1) :
        /\ Free(slot)
        /\ LET started == [inflight EXCEPT ![slot] =
                  [Idle EXCEPT !.op = "select", !.user = user,
                               !.arg = credentialId, !.credential = credentialId]]
           IN  IF backend = "mem"
               THEN LET selected ==
                            setSelectedCredential(userCredentials, user, credentialId)
                    IN  /\ userCredentials' = selected.store
                        /\ inflight' = [started EXCEPT ![slot].pc = "selected",
                                                       ![slot].result = selected.result]
               ELSE /\ userCredentials' = UnselectAll(userCredentials, user)
                    /\ inflight' = [started EXCEPT ![slot].pc = "unselected"]
        /\ UNCHANGED <<backend, credentials, currentCredentialId, documents,
                       currentUserCredentialId, resp>>

\* DatabaseStorage.setSelectedCredential: the second UPDATE, RETURNING
SelectSecond ==
    \E slot \in Slots :
        LET r == inflight[slot]
        IN  /\ r.pc = "unselected"
            /\ userCredentials' =
                  DatabaseStorage_SelectTarget(userCredentials, r.user, r.credential)
            /\ inflight' = [inflight EXCEPT
                  ![slot].pc = "selected",
                  ![slot].result =
                      SelectedTargetId(userCredentials, r.user, r.credential)]
            /\ UNCHANGED <<backend, credentials, currentCredentialId, documents,
                           currentUserCredentialId, resp>>

\* the response of either route
Respond ==
    \E slot \in Slots :
        LET r == inflight[slot]
        IN  /\ r.pc = "selected"
            /\ resp' = IF r.op = "verify"
                       THEN [Response("verify", r.user, r.arg, r.password, 200,
                                      "Credential verified and added to your profile")
                               EXCEPT !.credential = r.credential,
                                      !.obsoleteCredential = r.obsolete]
                       ELSE SelectResponse(r.user, r.arg, r.result)
            /\ inflight' = [inflight EXCEPT ![slot] = Idle]
            /\ UNCHANGED storeVars

NextConc ==
    \/ CreateCredentialConc
    \/ BeginVerify
    \/ VerifyFetch
    \/ VerifyCheck
    \/ VerifyAdd
    \/ VerifySelect
    \/ BeginSelect
    \/ SelectSecond
    \/ Respond

SpecConc == Init /\ [][NextConc]_vars

----------------------------------------------------------------------------
(* One user collecting a chain of credentials: verify with up to MaxHeld   *)
(* bindings, over a catalogue in which one credential strictly dominates   *)
(* two others.                                                             *)

MaxHeld == 3                 \* bindings ever created
MaxCatalogue == 3            \* credentials ever created, the sample one included

ChainBodies ==
    { Body("agent", "pw", 1, 0, 0),
      Body("director", "pw", 2, 2, Null) }

ChainVerifyBodies ==
    { <<"visitor_temporary", "guest123">>, <<"agent", "pw">>,
      <<"director", "pw">>, <<"director", "guest123">> }

CreateChainCredential == CreateCredentialWith(Tabs, ChainBodies, MaxCatalogue)

VerifyChainCredential == VerifyCredentialBy(Tabs, ChainVerifyBodies, MaxHeld)

NextChain ==
    \/ CreateChainCredential
    \/ VerifyChainCredential

SpecChain == Init /\ [][NextChain]_vars

----------------------------------------------------------------------------
(* The comparisons on their own: the access check of GET                   *)
(* /api/documents/:id and the obsolescence predicates of the two backends, *)
(* applied to clearance vectors drawn from OrderVectors.                   *)

\* the levels a stored vector can carry
OrderLevels == {0, 1, Null, Undef}

OrderVectors ==
    {Vec(s, m, a) : s \in OrderLevels, m \in OrderLevels, a \in OrderLevels}

\* !( !hasSecurityAccess || !hasMedicalAccess || !hasAdminAccess )
AccessGranted(selectedCredential, document) ==
    /\ hasSecurityAccess(selectedCredential, document)
    /\ hasMedicalAccess(selectedCredential, document)
    /\ hasAdminAccess(selectedCredential, document)

Comparison(a, b, c) ==
    [ op |-> "compare", a |-> a, b |-> b, c |-> c, done |-> FALSE,
      aa |-> FALSE, ab |-> FALSE, ba |-> FALSE, bc |-> FALSE, ac |-> FALSE,
      strictMem |-> FALSE, strictDb |-> FALSE ]

InitOrder ==
    /\ backend = "mem"
    /\ credentials = InitialCredentials
    /\ currentCredentialId = 2
    /\ documents = InitialDocuments
    /\ userCredentials = <<>>
    /\ currentUserCredentialId = 1
    /\ resp \in {Comparison(a, b, c) : a \in OrderVectors, b \in OrderVectors,
                                       c \in OrderVectors}
    /\ inflight = [slot \in 1..MaxSlots |-> Idle]

\* the access check on each pair, the obsolescence predicates on (a, a)
Compare ==
    /\ resp.op = "compare"
    /\ ~resp.done
    /\ resp' = [resp EXCEPT
                  !.done = TRUE,
                  !.aa = AccessGranted(resp.a, resp.a),
                  !.ab = AccessGranted(resp.a, resp.b),
                  !.ba = AccessGranted(resp.b, resp.a),
                  !.bc = AccessGranted(resp.b, resp.c),
                  !.ac = AccessGranted(resp.a, resp.c),
                  !.strictMem = StrictlyLower_Mem(resp.a, resp.a),
                  !.strictDb = StrictlyLower_Db(resp.a, resp.a)]
    /\ UNCHANGED <<storeVars, inflight>>

NextOrder == Compare

SpecOrder == InitOrder /\ [][NextOrder]_vars

----------------------------------------------------------------------------
(* The vocabulary of the claims *)

BindingsOf(ucs, u) == {i \in 1..Len(ucs) : ucs[i].userId = u}

SelectedOf(ucs, u) == {i \in BindingsOf(ucs, u) : ucs[i].isSelected}

Holds(ucs, u, c) == \E i \in BindingsOf(ucs, u) : ucs[i].credentialId = c

\* the credential with that id in the catalogue
CredentialOf(c) == CHOOSE cred \in {credentials[i] : i \in 1..Len(credentials)} :
                      cred.id = c

\* a missing or null level counts as 0
Level(x) == IF x = Null \/ x = Undef THEN 0 ELSE x

Dominates(v, r) ==
    /\ Level(v.securityLevel) >= Level(r.securityLevel)
    /\ Level(v.medicalLevel) >= Level(r.medicalLevel)
    /\ Level(v.adminLevel) >= Level(r.adminLevel)

StrictlyDominates(v, w) ==
    /\ Dominates(v, w)
    /\ \/ Level(v.securityLevel) > Level(w.securityLevel)
       \/ Level(v.medicalLevel) > Level(w.medicalLevel)
       \/ Level(v.adminLevel) > Level(w.adminLevel)

\* the last request was GET /api/documents/:id by a signed-in user for a
\* document of the store
DocumentRequested ==
    /\ resp.op = "getDocument"
    /\ resp.user \in Users
    /\ resp.arg \in 1..Len(documents)

\* the credential of a selected binding of the user of the last request
SelectedCredentialOfCaller ==
    CredentialOf(userCredentials[
        CHOOSE i \in SelectedOf(userCredentials, resp.user) : TRUE].credentialId)

----------------------------------------------------------------------------
(* C1: after any sequence of completed verify, select and remove calls,    *)
(* every user has at most one binding with isSelected = true.              *)
SelectionExclusivity ==
    \A u \in Users : Cardinality(SelectedOf(userCredentials, u)) <= 1

\* a user holds two bindings, exactly one of them selected, after a
\* successful verify, select or remove
SelectionExclusivityWitness ==
    /\ resp.op \in {"verify", "select", "remove"}
    /\ resp.status = 200
    /\ \E u \in Users :
          /\ Cardinality(BindingsOf(userCredentials, u)) = 2
          /\ Cardinality(SelectedOf(userCredentials, u)) = 1

(* C2: the unselect-all-then-select-one step of verify and select is one   *)
(* atomic unit per user: under every interleaving of the storage calls of  *)
(* concurrent requests of one user, no state has two bindings of that user *)
(* with isSelected = true.  The state between a verify's                   *)
(* addCredentialToUser, which stores the new binding selected, and its     *)
(* setSelectedCredential is left aside here: it precedes the step.         *)
SelectionAtomic ==
    \A u \in Users :
        (\A slot \in Slots : ~(inflight[slot].user = u /\ inflight[slot].pc = "added"))
        => \A i, j \in SelectedOf(userCredentials, u) : i = j

(* C3: with a selected credential and an existing document, GET            *)
(* /api/documents/:id returns the document iff the credential's level is   *)
(* >= the document's on each of the three axes, null counting as 0;        *)
(* otherwise it answers 403.                                               *)
AllowIffDominates ==
    (DocumentRequested /\ SelectedOf(userCredentials, resp.user) # {}) =>
        IF Dominates(Levels(SelectedCredentialOfCaller), Levels(documents[resp.arg]))
        THEN resp.status = 200 /\ resp.document = resp.arg
        ELSE resp.status = 403 /\ resp.document = None

\* a document that requires a level above 0 was returned
AllowIffDominatesWitness ==
    /\ DocumentRequested
    /\ SelectedOf(userCredentials, resp.user) # {}
    /\ resp.status = 200
    /\ \/ Level(documents[resp.arg].securityLevel) > 0
       \/ Level(documents[resp.arg].medicalLevel) > 0
       \/ Level(documents[resp.arg].adminLevel) > 0

(* C4: when the caller has no binding with isSelected = true, GET          *)
(* /api/documents/:id on any existing document is denied with 403,         *)
(* accessDenied = true, requiredLevels the document's three levels, and    *)
(* no currentLevels.                                                       *)
NoSelectionDenied ==
    (DocumentRequested /\ SelectedOf(userCredentials, resp.user) = {}) =>
        /\ resp.status = 403
        /\ resp.accessDenied
        /\ resp.requiredLevels = Levels(documents[resp.arg])
        /\ resp.currentLevels = Absent
        /\ resp.document = None

\* a caller holding a binding, none selected, was denied a document that
\* requires nothing
NoSelectionDeniedWitness ==
    /\ DocumentRequested
    /\ BindingsOf(userCredentials, resp.user) # {}
    /\ SelectedOf(userCredentials, resp.user) = {}
    /\ Levels(documents[resp.arg]) = Vec(0, 0, 0)
    /\ resp.status = 403

(* C5: when the selected credential does not dominate the document's       *)
(* required vector, the 403 carries requiredLevels = the document's levels *)
(* and currentLevels = the selected credential's levels.                   *)
DenialShape ==
    ( /\ DocumentRequested
      /\ SelectedOf(userCredentials, resp.user) # {}
      /\ ~Dominates(Levels(SelectedCredentialOfCaller), Levels(documents[resp.arg])) )
    =>  /\ resp.status = 403
        /\ resp.accessDenied
        /\ resp.requiredLevels = Levels(documents[resp.arg])
        /\ resp.currentLevels = Levels(SelectedCredentialOfCaller)

\* a denial of a caller whose selected credential has a level above 0
DenialShapeWitness ==
    /\ DocumentRequested
    /\ SelectedOf(userCredentials, resp.user) # {}
    /\ resp.status = 403
    /\ resp.currentLevels # Absent
    /\ Level(resp.currentLevels.securityLevel) > 0

(* C6: after a successful verify by u resolving to credential c, u has     *)
(* exactly one binding to c, it is selected, and every other binding of u  *)
(* is not.                                                                 *)
VerifyBindsAndSelects ==
    (resp.op = "verify" /\ resp.status = 200) =>
        LET mine == BindingsOf(userCredentials, resp.user)
        IN  /\ Cardinality({i \in mine :
                    userCredentials[i].credentialId = resp.credential}) = 1
            /\ \A i \in mine :
                    userCredentials[i].isSelected <=>
                        userCredentials[i].credentialId = resp.credential

\* a verify succeeded for a user who already held another credential
VerifyBindsAndSelectsWitness ==
    /\ resp.op = "verify"
    /\ resp.status = 200
    /\ Cardinality(BindingsOf(userCredentials, resp.user)) = 2

\* the lowest-id credential with that username
FirstNamed(username) ==
    CHOOSE c \in {credentials[i] : i \in 1..Len(credentials)} :
        /\ c.username = username
        /\ \A i \in 1..Len(credentials) :
              credentials[i].username = username => c.id <= credentials[i].id

NoneNamed(username) ==
    \A i \in 1..Len(credentials) : credentials[i].username # username

\* this step answers a verify of a signed-in user
VerifySignedIn ==
    /\ resp'.op = "verify"
    /\ resp'.user \in Users

\* this step answers a verify of a signed-in user who sent both fields
VerifyAnswered ==
    /\ VerifySignedIn
    /\ resp'.arg # Empty
    /\ resp'.password # Empty

\* the submitted pair names no credential, or one with another password
NoMatch(username, password) ==
    NoneNamed(username) \/ FirstNamed(username).password # password

(* C7, as stated: verify fails with 401 InvalidCredentials when no         *)
(* credential has the submitted username or the credential found has       *)
(* another password, and then no binding is created and no isSelected flag *)
(* changes.                                                                *)
InvalidCredentialsAlways401 ==
    [][ (VerifySignedIn /\ NoMatch(resp'.arg, resp'.password))
        =>  /\ resp'.status = 401
            /\ resp'.message = "Invalid credentials"
            /\ userCredentials' = userCredentials ]_vars

(* C7, amended: with a non-empty username and a non-empty password, verify *)
(* fails with 401 InvalidCredentials when no credential has the submitted  *)
(* username or the credential found has another password; with an empty or *)
(* missing field it is answered 400.  In both cases no binding is created  *)
(* and no isSelected flag changes.                                         *)
InvalidCredentialsRejected ==
    [][ /\ (VerifyAnswered /\ NoMatch(resp'.arg, resp'.password))
            =>  /\ resp'.status = 401
                /\ resp'.message = "Invalid credentials"
                /\ userCredentials' = userCredentials
        /\ (VerifySignedIn /\ (resp'.arg = Empty \/ resp'.password = Empty))
            =>  /\ resp'.status = 400
                /\ userCredentials' = userCredentials ]_vars

\* a verify with the username of a credential and a wrong password was
\* answered 401 while the caller held a selected binding
InvalidCredentialsRejectedWitness ==
    /\ resp.op = "verify"
    /\ resp.user \in Users
    /\ resp.status = 401
    /\ ~NoneNamed(resp.arg)
    /\ resp.password # Empty
    /\ FirstNamed(resp.arg).password # resp.password
    /\ SelectedOf(userCredentials, resp.user) # {}

(* C8: when u already holds a binding to c, a verify by u with c's         *)
(* username and password answers 409 AlreadyAcquired, creates no second    *)
(* binding and leaves every isSelected flag of u unchanged.                *)
AlreadyAcquiredRejected ==
    [][ \A i \in BindingsOf(userCredentials, resp'.user) :
          LET c == CredentialOf(userCredentials[i].credentialId)
          IN  ( /\ VerifyAnswered
                /\ resp'.arg = c.username
                /\ resp'.password = c.password )
              =>  /\ resp'.status = 409
                  /\ resp'.credential = c.id
                  /\ userCredentials' = userCredentials ]_vars

\* a 409 was answered to a caller whose selected binding is another one
AlreadyAcquiredRejectedWitness ==
    /\ resp.op = "verify"
    /\ resp.status = 409
    /\ \E i \in SelectedOf(userCredentials, resp.user) :
          userCredentials[i].credentialId # resp.credential

(* C9: on a successful verify of credential n by u, obsoleteCredential is  *)
(* non-null iff some credential already bound to u is strictly dominated   *)
(* by n, and it is then such a credential; credentials equal to or         *)
(* incomparable with n are never reported.                                 *)
ObsoleteIffStrictlyDominated ==
    (resp.op = "verify" /\ resp.status = 200) =>
        LET n == CredentialOf(resp.credential)
            before == {userCredentials[i].credentialId :
                          i \in BindingsOf(userCredentials, resp.user)} \ {n.id}
            dominated == {c \in before :
                            StrictlyDominates(Levels(n), Levels(CredentialOf(c)))}
        IN  /\ resp.obsoleteCredential # None <=> dominated # {}
            /\ resp.obsoleteCredential # None => resp.obsoleteCredential \in dominated

(* C10: selectCredential fails with NotOwned (404) iff the user has no     *)
(* binding for that credential id, and succeeds (200) exactly when such a  *)
(* binding exists.                                                         *)
SelectNotOwnedIff ==
    [][ ( /\ resp'.op = "select"
          /\ resp'.user \in Users
          /\ resp'.arg # NaN )
        =>  IF Holds(userCredentials, resp'.user, resp'.arg)
            THEN resp'.status = 200
            ELSE resp'.status = 404 ]_vars

\* a select of a credential that only another user holds was answered 404
SelectNotOwnedIffWitness ==
    /\ resp.op = "select"
    /\ resp.status = 404
    /\ \E u \in Users \ {resp.user} : Holds(userCredentials, u, resp.arg)

\* this step answers a select of a signed-in user with a numeric id
SelectAnswered ==
    /\ resp'.op = "select"
    /\ resp'.user \in Users
    /\ resp'.arg # NaN

(* C11: a selectCredential call that fails with NotOwned (404) leaves      *)
(* every binding of the user, and in particular which one is selected,     *)
(* exactly as it was before the call.                                      *)
SelectNotOwnedChangesNothing ==
    [][ (SelectAnswered /\ resp'.status = 404)
        => userCredentials' = userCredentials ]_vars

(* C12: after a successful selectCredential(u, c) the binding (u, c) is    *)
(* the only binding of u with isSelected = true, and u's bindings (their   *)
(* ids and credentialIds) are the same as before the call.                 *)
SelectSelectsOnlyTarget ==
    [][ (SelectAnswered /\ resp'.status = 200)
        =>  /\ Len(userCredentials') = Len(userCredentials)
            /\ \A i \in 1..Len(userCredentials) :
                  /\ userCredentials'[i].id = userCredentials[i].id
                  /\ userCredentials'[i].userId = userCredentials[i].userId
                  /\ userCredentials'[i].credentialId = userCredentials[i].credentialId
            /\ \E i \in BindingsOf(userCredentials', resp'.user) :
                  userCredentials'[i].credentialId = resp'.arg
            /\ \A i \in BindingsOf(userCredentials', resp'.user) :
                  userCredentials'[i].isSelected <=>
                      userCredentials'[i].credentialId = resp'.arg ]_vars

\* a select moved the selection back to the binding acquired first
SelectSelectsOnlyTargetWitness ==
    /\ resp.op = "select"
    /\ resp.status = 200
    /\ Cardinality(BindingsOf(userCredentials, resp.user)) = 2
    /\ \E i, j \in BindingsOf(userCredentials, resp.user) :
          /\ i < j
          /\ userCredentials[i].isSelected
          /\ userCredentials[i].credentialId = resp.arg
          /\ ~userCredentials[j].isSelected

\* this step answers a remove of a signed-in user with a numeric id
RemoveAnswered ==
    /\ resp'.op = "remove"
    /\ resp'.user \in Users
    /\ resp'.arg # NaN

(* C13: removeCredential(u, c) answers 404 when u has no binding for c,    *)
(* and then no binding of any user is deleted or modified; when u has such *)
(* a binding it answers 200 and afterwards u has no binding for c.         *)
RemoveNotOwnedOrGone ==
    [][ RemoveAnswered =>
          IF Holds(userCredentials, resp'.user, resp'.arg)
          THEN /\ resp'.status = 200
               /\ ~Holds(userCredentials', resp'.user, resp'.arg)
          ELSE /\ resp'.status = 404
               /\ userCredentials' = userCredentials ]_vars

\* a remove of a credential that only another user holds was answered 404
RemoveNotOwnedOrGoneWitness ==
    /\ resp.op = "remove"
    /\ resp.status = 404
    /\ \E u \in Users \ {resp.user} : Holds(userCredentials, u, resp.arg)

(* C14: removal never auto-promotes: after removing the user's selected    *)
(* binding every remaining binding of that user has isSelected = false,    *)
(* and removing a non-selected binding leaves the isSelected flag of every *)
(* remaining binding unchanged.                                            *)
RemoveNeverPromotes ==
    [][ (RemoveAnswered /\ resp'.status = 200) =>
          /\ \A i \in 1..Len(userCredentials') :
                \E j \in 1..Len(userCredentials) :
                    userCredentials[j] = userCredentials'[i]
          /\ (\E j \in SelectedOf(userCredentials, resp'.user) :
                    userCredentials[j].credentialId = resp'.arg)
             => SelectedOf(userCredentials', resp'.user) = {} ]_vars

\* after a remove the user still holds a binding, and none is selected
RemoveNeverPromotesWitness ==
    /\ resp.op = "remove"
    /\ resp.status = 200
    /\ BindingsOf(userCredentials, resp.user) # {}
    /\ SelectedOf(userCredentials, resp.user) = {}

\* this step answers GET /api/documents/:id of a signed-in user for a
\* document of the store
DocumentAnswered ==
    /\ resp'.op = "getDocument"
    /\ resp'.user \in Users
    /\ resp'.arg \in 1..Len(documents)

\* this step is a successful select or verify of user u
SelectsFor(u) ==
    /\ resp'.op \in {"select", "verify"}
    /\ resp'.user = u
    /\ resp'.status = 200

(* C15: once a user has removed their selected credential, every GET       *)
(* /api/documents/:id by that user on an existing document is denied (403, *)
(* no credential selected) for as long as the user performs no successful  *)
(* select and no successful verify; the first request after such a select  *)
(* or verify is decided against the newly selected credential.  Step by    *)
(* step: removing the selected binding leaves none selected; a user with   *)
(* none selected gets one only by a successful select or verify of their   *)
(* own; with none selected a document request is denied; and a successful  *)
(* select or verify leaves its credential as the one the access check of   *)
(* the next document request reads.                                        *)
DeniedUntilSelected ==
    [][ /\ ( /\ RemoveAnswered
             /\ resp'.status = 200
             /\ \E j \in SelectedOf(userCredentials, resp'.user) :
                    userCredentials[j].credentialId = resp'.arg )
           => SelectedOf(userCredentials', resp'.user) = {}
        /\ \A u \in Users :
              ( /\ SelectedOf(userCredentials, u) = {}
                /\ SelectedOf(userCredentials', u) # {} ) => SelectsFor(u)
        /\ (DocumentAnswered /\ SelectedOf(userCredentials, resp'.user) = {})
           => /\ resp'.status = 403
              /\ resp'.message = "Access denied - No credential selected"
              /\ userCredentials' = userCredentials
        /\ \A u \in Users :
              SelectsFor(u) =>
                /\ \A i \in SelectedOf(userCredentials', u) :
                      userCredentials'[i].credentialId = resp'.credential
                         \/ (resp'.op = "select"
                             /\ userCredentials'[i].credentialId = resp'.arg)
                /\ SelectedOf(userCredentials', u) # {}
        /\ (DocumentAnswered /\ SelectedOf(userCredentials, resp'.user) # {})
           => \A i \in SelectedOf(userCredentials, resp'.user) :
                 LET held == CredentialOf(userCredentials[i].credentialId)
                 IN  resp'.status =
                        IF Dominates(Levels(held), Levels(documents[resp'.arg]))
                        THEN 200 ELSE 403 ]_vars

\* a user whose second binding was deleted holds the first one, unselected,
\* and was denied a document for having no credential selected
DeniedUntilSelectedWitness ==
    /\ resp.op = "getDocument"
    /\ resp.status = 403
    /\ resp.message = "Access denied - No credential selected"
    /\ currentUserCredentialId = 3
    /\ Len(userCredentials) = 1
    /\ userCredentials[1].id = 1
    /\ userCredentials[1].userId = resp.user

\* the last request was GET /api/documents/accessible by a signed-in user
AccessibleRequested ==
    /\ resp.op = "accessible"
    /\ resp.user \in Users

\* the stored documents the vector q dominates, a missing or null level
\* counting as 0, in the order of the store
DominatedDocuments(q) ==
    SelectSeq(documents, LAMBDA d :
        /\ Level(d.securityLevel) <= q.securityLevel
        /\ Level(d.medicalLevel) <= q.medicalLevel
        /\ Level(d.adminLevel) <= q.adminLevel)

(* C16: getAccessibleDocuments(sec, med, admin) returns exactly the stored *)
(* documents d with d.securityLevel <= sec, d.medicalLevel <= med and      *)
(* d.adminLevel <= admin, a null or missing document level counting as 0,  *)
(* in the order of the store's listing, none added, dropped or duplicated. *)
AccessibleExactlyDominated ==
    AccessibleRequested => resp.documents = IdsOf(DominatedDocuments(resp.arg))

\* a binding of u references a credential that is not in the catalogue
Dangling(u) ==
    \E i \in BindingsOf(userCredentials, u) :
        \A j \in 1..Len(credentials) :
            credentials[j].id # userCredentials[i].credentialId

(* C17: getUserCredentials fails with an integrity error whenever one of   *)
(* the user's bindings references a credential id absent from the          *)
(* credential store: GET /api/credentials does not answer a list that      *)
(* omits the binding, and GET /api/documents/:id for a stored document     *)
(* ends as a server error (500), not as a 403 clearance denial.            *)
IntegrityErrorSurfaced ==
    /\ (resp.op = "getCredentials" /\ resp.user \in Users /\ Dangling(resp.user))
       => resp.status = 500
    /\ (DocumentRequested /\ Dangling(resp.user)) => resp.status = 500

(* C18: createCredential gives each new credential an id different from    *)
(* the id of every credential created before it, also when its username    *)
(* duplicates an existing one, and stores it with isActive = true; the     *)
(* existing credentials are left unchanged.                                *)
CreateAssignsFreshId ==
    [][ (resp'.op = "create" /\ resp'.status = 201) =>
          LET new == credentials'[Len(credentials')]
          IN  /\ Len(credentials') = Len(credentials) + 1
              /\ \A i \in 1..Len(credentials) : credentials'[i] = credentials[i]
              /\ new.id = resp'.credential
              /\ new.username = resp'.arg
              /\ new.isActive
              /\ \A i \in 1..Len(credentials) : credentials[i].id < new.id
              /\ new.id < currentCredentialId' ]_vars

\* a credential was created with the username of an existing one
CreateAssignsFreshIdWitness ==
    /\ resp.op = "create"
    /\ resp.status = 201
    /\ \E i, j \in 1..Len(credentials) :
          /\ i < j
          /\ credentials[i].username = credentials[j].username
          /\ credentials[j].id = resp.credential

\* a vector with its missing and null levels as 0
Normalized(v) ==
    Vec(Level(v.securityLevel), Level(v.medicalLevel), Level(v.adminLevel))

(* C19: the dominance relation of the access check (per-axis >= on         *)
(* security, medical, admin) is a partial order over clearance vectors: it *)
(* is reflexive, antisymmetric (a dominates b and b dominates a exactly    *)
(* when a = b, as vectors of numbers: a missing or null level is 0) and    *)
(* transitive; and the strict dominance used for obsolescence is           *)
(* irreflexive.                                                            *)
DominanceIsPartialOrder ==
    (resp.op = "compare" /\ resp.done) =>
        /\ resp.aa
        /\ (resp.ab /\ resp.ba) <=> (Normalized(resp.a) = Normalized(resp.b))
        /\ (resp.ab /\ resp.bc) => resp.ac
        /\ ~resp.strictMem
        /\ ~resp.strictDb

\* a chain a >= b >= c of three different vectors, a with a level left out
DominanceIsPartialOrderWitness ==
    /\ resp.op = "compare"
    /\ resp.done
    /\ resp.ab /\ resp.bc /\ resp.ac
    /\ Normalized(resp.a) # Normalized(resp.b)
    /\ Normalized(resp.b) # Normalized(resp.c)
    /\ resp.a.medicalLevel = Undef

(* C20: an obsolete credential is only reported, never removed: after a    *)
(* successful verify every binding the user held before the call still     *)
(* exists with the same credentialId, the binding of the credential        *)
(* returned as obsoleteCredential included.                                *)
ObsoleteOnlyReported ==
    [][ (VerifySignedIn /\ resp'.status = 200) =>
          /\ \A i \in BindingsOf(userCredentials, resp'.user) :
                \E j \in BindingsOf(userCredentials', resp'.user) :
                    /\ userCredentials'[j].id = userCredentials[i].id
                    /\ userCredentials'[j].credentialId = userCredentials[i].credentialId
          /\ resp'.obsoleteCredential # None =>
                /\ Holds(userCredentials, resp'.user, resp'.obsoleteCredential)
                /\ Holds(userCredentials', resp'.user, resp'.obsoleteCredential) ]_vars

\* a verify reported an obsolete credential, which the user still holds
ObsoleteOnlyReportedWitness ==
    /\ resp.op = "verify"
    /\ resp.status = 200
    /\ resp.obsoleteCredential # None
    /\ resp.obsoleteCredential # resp.credential
    /\ Holds(userCredentials, resp.user, resp.obsoleteCredential)

(* C21: the access decision is side-effect free: GET /api/documents/:id,   *)
(* GET /api/documents/accessible and GET /api/credentials, whatever their  *)
(* outcome, leave the credential store, all bindings with their isSelected *)
(* flags, and all documents unchanged.                                     *)
ReadsChangeNothing ==
    [][ resp'.op \in {"getDocument", "accessible", "getCredentials"}
        => storeVars' = storeVars ]_vars

\* a document was denied to a user who holds a selected binding
ReadsChangeNothingWitness ==
    /\ resp.op = "getDocument"
    /\ resp.status = 403
    /\ resp.user \in Users
    /\ SelectedOf(userCredentials, resp.user) # {}
    /\ Len(userCredentials) = 2

(* C22: check order of GET /api/documents/:id: an unauthenticated caller   *)
(* always gets 401, also for a missing document; an authenticated caller   *)
(* asking for a missing document always gets 404, also with no selected    *)
(* credential; the clearance decision (403 or 200) is reached only for an  *)
(* authenticated caller and an existing document.                          *)
GatewayCheckOrder ==
    resp.op = "getDocument" =>
        /\ resp.user = Anonymous => resp.status = 401
        /\ (resp.user \in Users /\ resp.arg # NaN /\ resp.arg \notin 1..Len(documents))
           => resp.status = 404
        /\ resp.status \in {200, 403}
           => (resp.user \in Users /\ resp.arg \in 1..Len(documents))

\* an unauthenticated caller asked for a document that does not exist
GatewayCheckOrderWitness ==
    /\ resp.op = "getDocument"
    /\ resp.user = Anonymous
    /\ resp.arg = Len(documents) + 1
    /\ resp.status = 401

\* the last request was a verify of a signed-in user who sent both fields
VerifyRequested ==
    /\ resp.op = "verify"
    /\ resp.user \in Users
    /\ resp.arg # Empty
    /\ resp.password # Empty

(* C23: in verify the password check precedes the ownership check: the     *)
(* username of a credential the user already holds with a wrong password   *)
(* yields InvalidCredentials (401), never AlreadyAcquired (409); 409 is    *)
(* answered only when the password matched.                                *)
PasswordBeforeOwnership ==
    VerifyRequested =>
        /\ ( /\ ~NoneNamed(resp.arg)
             /\ Holds(userCredentials, resp.user, FirstNamed(resp.arg).id)
             /\ FirstNamed(resp.arg).password # resp.password )
           => resp.status = 401
        /\ resp.status = 409
           => (~NoneNamed(resp.arg) /\ FirstNamed(resp.arg).password = resp.password)

\* the username of a held credential was sent with a wrong password
PasswordBeforeOwnershipWitness ==
    /\ VerifyRequested
    /\ ~NoneNamed(resp.arg)
    /\ Holds(userCredentials, resp.user, FirstNamed(resp.arg).id)
    /\ FirstNamed(resp.arg).password # resp.password
    /\ resp.status = 401

\* the bindings of u, by index, whose credential the credential n strictly
\* dominates
DominatedBindings(ucs, u, n) ==
    {i \in BindingsOf(ucs, u) :
        StrictlyDominates(Levels(n), Levels(CredentialOf(ucs[i].credentialId)))}

(* C24: when a newly verified credential strictly dominates more than one  *)
(* credential already bound to the user, the obsoleteCredential returned   *)
(* is the first strictly dominated one in the order of the user's binding  *)
(* list, the earliest-acquired binding, so that the same bindings and the  *)
(* same new credential always give the same obsoleteCredential.            *)
ObsoleteIsFirstDominated ==
    [][ (VerifySignedIn /\ resp'.status = 200) =>
          LET dominated == DominatedBindings(userCredentials, resp'.user,
                                             CredentialOf(resp'.credential))
              first == CHOOSE i \in dominated : \A j \in dominated : i <= j
          IN  Cardinality(dominated) > 1 =>
                resp'.obsoleteCredential = userCredentials[first].credentialId ]_vars

\* the clearance of the caller of the last request: the vector of the
\* credential selected, and no level on any axis when none is selected
ClearanceOfCaller ==
    IF SelectedOf(userCredentials, resp.user) = {} THEN Vec(0, 0, 0)
    ELSE Levels(SelectedCredentialOfCaller)

\* the ids of the documents the last response handed to an authenticated user
DocumentsReturned ==
    IF resp.user \notin Users \/ resp.status # 200 THEN {}
    ELSE IF resp.op \in {"getDocuments", "accessible"}
    THEN {resp.documents[k] : k \in 1..Len(resp.documents)}
    ELSE IF resp.op = "getDocument" THEN {resp.arg}
    ELSE {}

(* C25: no clearance bypass: no endpoint that returns documents (GET       *)
(* /api/documents, GET /api/documents/accessible with any query values,    *)
(* GET /api/documents/:id) returns to an authenticated user a document     *)
(* whose required vector is not dominated by the credential the user has   *)
(* currently selected.                                                     *)
NoClearanceBypass ==
    \A id \in DocumentsReturned :
        Dominates(ClearanceOfCaller, Levels(getDocument(id)))

\* the ids GET /api/documents/accessible lists for user u when the client
\* sends the levels of u's selected credential
ListedFor(u) ==
    LET q == SidebarQuery(u)
    IN  Range(IdsOf(getAccessibleDocuments(QueryLevel(q.securityLevel),
                                           QueryLevel(q.medicalLevel),
                                           QueryLevel(q.adminLevel))))

(* C26: the two document entry points agree: for every user state and      *)
(* every stored document d, d is in the result of getAccessibleDocuments   *)
(* called with the levels of the user's selected credential (0, 0, 0 when  *)
(* none is selected, as the client sends) if and only if GET               *)
(* /api/documents/:id for d by that user is allowed.                       *)
EntryPointsAgree ==
    \A u \in Users : \A i \in 1..Len(documents) :
        documents[i].id \in ListedFor(u)
            <=> GetDocumentResponse(u, documents[i].id).status = 200

\* a verify still in flight that is past its ownership check for the same
\* user and credential as the last response
PastOwnershipCheck(slot) ==
    /\ inflight[slot].op = "verify"
    /\ inflight[slot].pc \in {"checked", "added", "unselected", "selected"}
    /\ inflight[slot].user = resp.user
    /\ inflight[slot].credential = resp.credential

(* C27: binding uniqueness under concurrency: when two verify requests by  *)
(* the same user for the same credential interleave at their storage calls *)
(* (both read the binding list before either adds), no reachable state     *)
(* contains two bindings with the same (userId, credentialId), and at most *)
(* one of the two requests answers 200: once one has answered 200, the     *)
(* other is not on its way to a 200 as well.                               *)
BindingsUniqueUnderInterleaving ==
    /\ \A i, j \in 1..Len(userCredentials) :
          (/\ userCredentials[i].userId = userCredentials[j].userId
           /\ userCredentials[i].credentialId = userCredentials[j].credentialId)
          => i = j
    /\ (resp.op = "verify" /\ resp.status = 200)
          => \A slot \in Slots : ~PastOwnershipCheck(slot)

\* the vector of the credential the caller of the last request has
\* selected, or NoVector
NoVector == [none |-> TRUE]

SelectedVectorOfCaller ==
    IF SelectedOf(userCredentials, resp.user) = {} THEN NoVector
    ELSE Levels(SelectedCredentialOfCaller)

\* what a response says apart from whom it answers and for which id
Outcome(r) ==
    [ status |-> r.status, message |-> r.message,
      accessDenied |-> r.accessDenied, requiredLevels |-> r.requiredLevels,
      currentLevels |-> r.currentLevels, returned |-> r.document # None ]

\* the outcome as a function of the two vectors and of nothing else
OutcomeOf(required, selected) ==
    IF selected = NoVector
    THEN [ status |-> 403, message |-> "Access denied - No credential selected",
           accessDenied |-> TRUE, requiredLevels |-> required,
           currentLevels |-> Absent, returned |-> FALSE ]
    ELSE IF Dominates(selected, required)
    THEN [ status |-> 200, message |-> "", accessDenied |-> FALSE,
           requiredLevels |-> Absent, currentLevels |-> Absent,
           returned |-> TRUE ]
    ELSE [ status |-> 403, message |-> "Access denied - Insufficient permissions",
           accessDenied |-> TRUE, requiredLevels |-> required,
           currentLevels |-> selected, returned |-> FALSE ]

\* the bindings of the caller that are not selected and whose credential
\* dominates the document requested
UnselectedDominating ==
    {i \in BindingsOf(userCredentials, resp.user) :
        /\ ~userCredentials[i].isSelected
        /\ Dominates(Levels(CredentialOf(userCredentials[i].credentialId)),
                     Levels(documents[resp.arg]))}

(* C28: the outcome of GET /api/documents/:id depends only on the          *)
(* document's required vector and on the vector of the user's selected     *)
(* credential: two states that agree on these give the same allow/deny     *)
(* result and the same payload, whatever other (unselected) credentials    *)
(* the user holds; in particular an unselected credential that dominates   *)
(* the document never grants access.                                       *)
OutcomeFromSelectedOnly ==
    DocumentRequested =>
        /\ Outcome(resp) = OutcomeOf(Levels(documents[resp.arg]),
                                     SelectedVectorOfCaller)
        /\ resp.status = 200 => resp.document = resp.arg

\* the document was denied to a user who holds, unselected, a credential
\* that dominates it
OutcomeFromSelectedOnlyWitness ==
    /\ DocumentRequested
    /\ resp.status = 403
    /\ SelectedOf(userCredentials, resp.user) # {}
    /\ UnselectedDominating # {}

\* the bindings of the users other than u, in the order of the store
BindingsOfOthers(ucs, u) == SelectSeq(ucs, LAMBDA uc : uc.userId # u)

(* C29: per-user isolation: a verify, select or remove call made by user   *)
(* u, successful or not, never creates, deletes or changes the isSelected  *)
(* flag of a binding whose userId differs from u, so the selected          *)
(* credential of every other user is unchanged.                            *)
PerUserIsolation ==
    [][ (resp'.op \in {"verify", "select", "remove"} /\ resp'.user \in Users) =>
          /\ BindingsOfOthers(userCredentials', resp'.user)
                = BindingsOfOthers(userCredentials, resp'.user)
          /\ \A v \in Users \ {resp'.user} :
                {userCredentials'[i].credentialId :
                    i \in SelectedOf(userCredentials', v)}
                = {userCredentials[i].credentialId :
                    i \in SelectedOf(userCredentials, v)} ]_vars

\* a user selected or removed a credential while another user has one selected
PerUserIsolationWitness ==
    /\ resp.op \in {"select", "remove"}
    /\ resp.status = 200
    /\ resp.user \in Users
    /\ \E v \in Users \ {resp.user} : SelectedOf(userCredentials, v) # {}

\* what DatabaseStorage holds for the credential MemStorage holds as c:
\* MemStorage keeps the fields of the create request as they came, so c is
\* that request, and the seeded credential is the same in both
OnDatabase(c) == [DatabaseStorage_createCredential(c) EXCEPT !.id = c.id]

\* the same for a document, which the admin creates and then edits with
\* one body
DocumentOnDatabase(d) ==
    DatabaseStorage_updateDocument(
        [DatabaseStorage_createDocument(<<>>, d) EXCEPT !.id = d.id], d)

\* the obsoleteCredential values DatabaseStorage can answer to the verify
\* of the last response
DatabaseObsolete ==
    LET new == OnDatabase(CredentialOf(resp.credential))
        held == {userCredentials[i].credentialId :
                    i \in BindingsOf(userCredentials, resp.user)} \ {resp.credential}
        lower == {c \in held : StrictlyLower_Db(OnDatabase(CredentialOf(c)), new)}
    IN  IF lower = {} THEN {None} ELSE lower

\* the list DatabaseStorage answers to the accessible query of the last
\* response
DatabaseAccessible ==
    SelectSeq([i \in 1..Len(documents) |-> DocumentOnDatabase(documents[i])],
              LAMBDA doc : DatabaseStorage_Accessible(doc, resp.arg.securityLevel,
                               resp.arg.medicalLevel, resp.arg.adminLevel))

(* C30: MemStorage and DatabaseStorage are interchangeable: for every      *)
(* sequential sequence of createCredential, verify, select, remove and     *)
(* document-read requests started from the same initial data both backends *)
(* return the same responses and end with the same bindings and isSelected *)
(* flags.  Stated on the MemStorage run: each verify and each accessible   *)
(* query is answered as DatabaseStorage answers it after the same          *)
(* requests.                                                               *)
BackendsInterchangeable ==
    backend = "mem" =>
        /\ (resp.op = "verify" /\ resp.status = 200)
              => resp.obsoleteCredential \in DatabaseObsolete
        /\ AccessibleRequested => resp.documents = IdsOf(DatabaseAccessible)

====
